---- MODULE Spec2Model ----
(***************************************************************************)
(* Model of the lottery server of tp0-base: the wire codec of              *)
(* server/common/protocol.py and the threaded server of                    *)
(* server/common/server.py (accept loop, one handler thread per            *)
(* connection, two barriers, two latches, one lock).                       *)
(*                                                                         *)
(* A Python str / bytes value is modelled as a sequence of symbols: the    *)
(* separator characters "|" and ";" are symbols of their own, every other  *)
(* symbol stands for a run of ordinary characters.                         *)
(***************************************************************************)
EXTENDS Integers, Sequences, FiniteSets, TLC

\* ------------------------------------------------------------------ bounds
\* provisioned agency files: Server._total_agencies, the size of both barriers
TotalAgencies == 2
\* connections the peers open beyond the provisioned agency count
ExtraConns == 1
\* Batch and WinnersQuery messages the peers deliver, all connections together,
\* while their handlers are in the submit loop
MaxSubmit == 1
\* bets the store holds
MaxStore == 2
\* bets in one Batch
MaxBatch == 2

\* ------------------------------------------------------ protocol constants
BATCH == 1
RESPONSE == 2
FINISHED_NOTIFICATION == 3
WINNERS_QUERY == 4
WINNERS_RESPONSE == 5
\* a type byte that is none of the codes above
UNKNOWN_TYPE == 6
\* the number has_won compares a bet's number with
LOTTERY_WINNER_NUMBER == 7574
\* a number that does not win
OTHER_NUMBER == 1234

Conns == 1..(TotalAgencies + ExtraConns)

\* the None of Python
None == [none |-> TRUE]

\* ------------------------------------------------------------------ strings
BAR == "|"
SEMI == ";"
Str(a) == <<a>>
\* agency identifiers a peer may put on the wire: "x" is no integer
WireAgencies == {Str("1"), Str("2"), Str("x")}
\* agency identifiers a peer may notify as finished
FinishedAgencies == {Str("1"), Str("2")}

\* str.split(sep): the parts between the non-overlapping occurrences of sep,
\* scanned left to right; the empty string splits into one empty part
RECURSIVE SplitAcc(_, _, _, _)
SplitAcc(s, sep, cur, acc) ==
    IF s = <<>> THEN Append(acc, cur)
    ELSE IF Len(s) >= Len(sep) /\ SubSeq(s, 1, Len(sep)) = sep
         THEN SplitAcc(SubSeq(s, Len(sep) + 1, Len(s)), sep, <<>>, Append(acc, cur))
         ELSE SplitAcc(Tail(s), sep, Append(cur, Head(s)), acc)

Split(s, sep) == SplitAcc(s, sep, <<>>, <<>>)

\* sep.join(parts)
RECURSIVE Join(_, _)
Join(parts, sep) ==
    IF parts = <<>> THEN <<>>
    ELSE IF Len(parts) = 1 THEN parts[1]
    ELSE parts[1] \o sep \o Join(Tail(parts), sep)

\* int(s) raises ValueError unless s denotes an integer
IsInt(s) == s \in {Str("1"), Str("2"), Str("7574"), Str("1234")}

\* int(s) of a string that denotes an integer
ToInt(s) ==
    IF s = Str("1") THEN 1
    ELSE IF s = Str("2") THEN 2
    ELSE IF s = Str("7574") THEN LOTTERY_WINNER_NUMBER
    ELSE OTHER_NUMBER

\* ------------------------------------------------------------------- codec
Bet(agency, first_name, last_name, document, birthdate, number) ==
    [agency |-> agency, first_name |-> first_name, last_name |-> last_name,
     document |-> document, birthdate |-> birthdate, number |-> number]

Message(type, data) == [type |-> type, data |-> data]

\* deserialize_bet: None stands for the ValueError it raises
deserialize_bet(data) ==
    LET parts == Split(data, <<BAR>>)
    IN IF Len(parts) # 6 THEN None
       ELSE Bet(parts[1], parts[2], parts[3], parts[4], parts[5], parts[6])

\* deserialize_batch: None stands for the ValueError it raises
deserialize_batch(data) ==
    LET parts == Split(data, <<BAR, BAR>>)
    IN IF Len(parts) # 2 THEN None
       ELSE LET bet_strings == IF parts[2] = <<>> THEN <<>>
                               ELSE Split(parts[2], <<SEMI, SEMI>>)
                bets == [i \in 1..Len(bet_strings) |-> deserialize_bet(bet_strings[i])]
            IN IF \E i \in 1..Len(bets) : bets[i] = None THEN None
               ELSE [agency |-> parts[1], bets |-> bets]

deserialize_winners_query(data) == [agency |-> data]

deserialize_finished_notification(data) == [agency |-> data]

serialize_response(response) ==
    (IF response.success THEN Str("true") ELSE Str("false")) \o <<BAR>> \o response.message

serialize_winners_response(response) == Join(response.winners, <<BAR>>)

\* What a peer puts on the wire for one frame: the type byte (has_type), how
\* many of the 4 length bytes arrive (length_bytes), the length they declare and
\* the payload bytes that arrive before the peer stops sending.
Frame(has_type, type, length_bytes, length, payload) ==
    [has_type |-> has_type, type |-> type, length_bytes |-> length_bytes,
     length |-> length, payload |-> payload]

\* receive_message: the Message decoded from a frame, or None
receive_message(f) ==
    IF ~f.has_type THEN None
    ELSE IF f.length_bytes < 4 THEN None
    ELSE IF Len(f.payload) < f.length THEN None
    ELSE LET payload == SubSeq(f.payload, 1, f.length)
         IN IF f.type = BATCH
            THEN LET data == deserialize_batch(payload)
                 IN IF data = None THEN None ELSE Message(BATCH, data)
            ELSE IF f.type = WINNERS_QUERY
            THEN Message(WINNERS_QUERY, deserialize_winners_query(payload))
            ELSE IF f.type = FINISHED_NOTIFICATION
            THEN Message(FINISHED_NOTIFICATION, deserialize_finished_notification(payload))
            ELSE None

\* ------------------------------------------------------------ peer's frames
\* The peer's encoders (the client is not part of the server's sources).
EncodeBet(b) ==
    Join(<<b.agency, b.first_name, b.last_name, b.document, b.birthdate, b.number>>, <<BAR>>)

EncodeBatch(agency, bets) ==
    agency \o <<BAR, BAR>> \o Join([i \in 1..Len(bets) |-> EncodeBet(bets[i])], <<SEMI, SEMI>>)

\* the bets of the agencies' files: agency 1 has a winner and a loser, agency 2
\* a winner
AgencyFile(a) ==
    IF a = Str("1")
    THEN << Bet(Str("1"), Str("f"), Str("l"), Str("d1"), Str("b"), Str("7574")),
            Bet(Str("1"), Str("f"), Str("l"), Str("d2"), Str("b"), Str("1234")) >>
    ELSE << Bet(Str("2"), Str("f"), Str("l"), Str("d3"), Str("b"), Str("7574")) >>

\* a Batch is a chunk of at most MaxBatch consecutive bets of the file, or empty
Chunks(file) ==
    {SubSeq(file, i, j) : <<i, j>> \in
        {<<i, j>> \in (1..Len(file)) \X (1..Len(file)) : i <= j /\ j - i < MaxBatch}}
    \cup {<<>>}

GoodBatchPayloads ==
    UNION {{EncodeBatch(a, bets) : bets \in Chunks(AgencyFile(a))} : a \in FinishedAgencies}

\* a bet of five fields
ShortBet == Join(<<Str("1"), Str("f"), Str("l"), Str("d1"), Str("7574")>>, <<BAR>>)
AGoodBet == EncodeBet(Bet(Str("1"), Str("f"), Str("l"), Str("d1"), Str("b"), Str("7574")))

\* Batch payloads that do not decode: no "||", three parts, a bet of five
\* fields alone and after a well-formed bet, and the empty payload
BadBatchPayloads ==
    { <<>>,
      Str("1"),
      Str("1") \o <<BAR, BAR>> \o AGoodBet \o <<BAR, BAR>> \o AGoodBet,
      Str("1") \o <<BAR, BAR>> \o ShortBet,
      Str("1") \o <<BAR, BAR>> \o AGoodBet \o <<SEMI, SEMI>> \o ShortBet }

Payloads(type) ==
    IF type = BATCH THEN GoodBatchPayloads \cup BadBatchPayloads
    ELSE IF type = WINNERS_QUERY THEN WireAgencies
    ELSE FinishedAgencies

InboundTypes == {BATCH, FINISHED_NOTIFICATION, WINNERS_QUERY}
WireTypes == InboundTypes \cup {RESPONSE, UNKNOWN_TYPE}

\* whole frames
CompleteFrames ==
    {Frame(TRUE, t, 4, Len(p), p) : <<t, p>> \in UNION {{<<t, p>> : p \in Payloads(t)} : t \in WireTypes}}

\* frames the peer stops sending in the middle of: before the type byte, inside
\* the length bytes, inside the payload
CutFrames ==
    {Frame(FALSE, BATCH, 0, 0, <<>>)}
    \cup {Frame(TRUE, t, 2, 0, <<>>) : t \in InboundTypes}
    \cup {Frame(TRUE, t, 4, 1, <<>>) : t \in InboundTypes}
    \cup {Frame(TRUE, BATCH, 4, Len(p), SubSeq(p, 1, Len(p) - 1)) : p \in {EncodeBatch(Str("1"), <<>>)}}

Frames == CompleteFrames \cup CutFrames

\* the peer closed before the frame was whole
PeerClosed(f) == ~f.has_type \/ f.length_bytes < 4 \/ Len(f.payload) < f.length

\* what the peer did wrong in a frame, if anything
FrameKind(f) ==
    IF f \in CutFrames THEN "cut"
    ELSE IF f.type \notin InboundTypes THEN "unknown"
    ELSE IF f.type = BATCH /\ f.payload \in BadBatchPayloads THEN "malformed"
    ELSE "ok"

\* What a handler can get from one call of receive_message: the kind and type
\* byte of the frame the peer sent, what receive_message returns for it, and
\* whether the peer closed.
Inbound ==
    {[kind |-> FrameKind(f), type |-> IF FrameKind(f) = "cut" THEN 0 ELSE f.type,
      msg |-> receive_message(f), closed |-> PeerClosed(f)] : f \in Frames}

\* -------------------------------------------------------------------- state
VARIABLES
    \* Server fields
    client_sockets,            \* self._client_sockets: the live-connection registry
    client_threads,            \* self._client_threads: how many threads were started
    finished_agencies,         \* self._finished_agencies
    lottery_completed,         \* self._lottery_completed
    winners_sent,              \* self._winners_sent
    pending_winner_queries,    \* self._pending_winner_queries
    all_bets,                  \* self._all_bets: the materialized winners
    winner_queries_received,   \* self._winner_queries_received
    lock,                      \* self._lock: the set of its holders ({} when free)
    finished_barrier,          \* self._finished_barrier: the threads waiting in it
    winners_barrier,           \* self._winners_barrier: the threads waiting in it
    \* the bet store behind store_bets / load_bets
    store,
    \* the accept loop
    main_pc,
    \* one handler thread per connection
    pc,                        \* where the thread is
    finished_received,         \* its local finished_received
    message,                   \* the message it is handling
    \* the connections
    sock_closed,               \* client_sock.close() was called
    peer_alive,                \* the peer still reads and writes
    \* history
    out,                       \* what was transmitted on each connection
    owed,                      \* per connection: the whole Batch and FinishedNotification
                               \* frames its handler received, in its submit loop and
                               \* after barrier A; the WinnersQueries it received; the
                               \* bets it was sent a success Response for
    submitted,                 \* Batch and WinnersQuery messages of the submit loops
    budget,                    \* what the peers do in this run beyond one round
    lottery_runs,              \* executions of __perform_lottery
    broadcast_runs,            \* executions of __send_winners_to_all_clients
    snapshot,                  \* what the lottery loaded from the store
    load_failed,               \* load_bets raised in __perform_lottery
    \* one call of send_message(conn, message)
    send_arg,                  \* its message argument
    full_message,              \* type_byte + length_bytes + payload
    total_sent,                \* its local total_sent
    wire,                      \* the bytes conn.send has transmitted
    send_calls,                \* calls of conn.send
    send_result                \* "idle", "called", "sending", or "True" / "False" returned

server_vars == <<client_sockets, client_threads, finished_agencies, lottery_completed,
                 winners_sent, pending_winner_queries, all_bets, winner_queries_received,
                 lock, finished_barrier, winners_barrier>>
thread_vars == <<pc, finished_received, message>>
conn_vars == <<sock_closed, peer_alive>>
hist_vars == <<out, owed, submitted, budget, lottery_runs, broadcast_runs, snapshot,
               load_failed>>
send_vars == <<send_arg, full_message, total_sent, wire, send_calls, send_result>>

\* In one run the peers either open connections beyond the provisioned count or
\* deliver Batches and WinnersQueries in the submit loops.
Budgets == {[conns |-> ExtraConns, submit |-> 0], [conns |-> 0, submit |-> MaxSubmit]}
\* the Server fields but the lock
fields == <<client_sockets, client_threads, finished_agencies, lottery_completed,
            winners_sent, pending_winner_queries, all_bets, winner_queries_received,
            finished_barrier, winners_barrier>>
vars == <<server_vars, store, main_pc, thread_vars, conn_vars, hist_vars, send_vars>>

\* the accept loop's identity as a lock holder
MainThread == {0}

\* ------------------------------------------------- collaborators (utils.py)
\* has_won: the bet's number is the winning number
has_won(bet) == bet.number = LOTTERY_WINNER_NUMBER

\* load_bets: the stored rows as bets, agency and number converted with int()
load_bets(st) ==
    [i \in 1..Len(st) |->
        Bet(ToInt(st[i].agency), st[i].first_name, st[i].last_name,
            st[i].document, st[i].birthdate, ToInt(st[i].number))]

\* store_bets: the rows appended
store_bets(st, bets) == st \o bets

\* ------------------------------------------------------- coordinator helpers
\* the `if agency not in self._finished_agencies` of the mark
mark_finished_toggle(S, agency) == IF agency \in S THEN S \ {agency} ELSE S \cup {agency}
mark_finished(S, agency) == IF agency \notin S THEN S \cup {agency} ELSE S

\* threading.Barrier(self._total_agencies).wait(): the arrival of one more
\* thread trips the barrier when `waiting` threads wait in it already
barrier_one_more(waiting) == waiting = TotalAgencies
barrier_trips(waiting) == waiting + 1 = TotalAgencies

\* threading.Lock: `with self._lock` is entered when no thread holds the lock
lock_always_free(l) == TRUE
lock_free(l) == l = {}

\* `if not self._lottery_completed`
latch_always_open(flag) == TRUE
lottery_latch(flag) == ~flag

\* `if not hasattr(self, '_winners_sent') or not self._winners_sent`
winners_latch_open(flag) == TRUE
winners_latch(flag) == ~flag

\* `if not lottery_completed` of __handle_winners_query: the query is stored
query_always_pending(completed) == TRUE
query_never_pending(completed) == FALSE
query_pending(completed) == ~completed

\* a __perform_lottery that keeps the winners read before load_bets raised
perform_lottery_partial(st, loads, old) == SelectSeq(load_bets(st), has_won)
\* __perform_lottery: the new self._all_bets; a load that raises leaves it alone
perform_lottery(st, loads, old) ==
    IF loads THEN SelectSeq(load_bets(st), has_won) ELSE old

\* __get_winners_for_agency
RECURSIVE winners_loop(_, _, _)
winners_loop(bets, agency_int, winners) ==
    IF bets = <<>> THEN winners
    ELSE winners_loop(Tail(bets), agency_int,
                      IF Head(bets).agency = agency_int
                      THEN Append(winners, Head(bets).document) ELSE winners)

winners_of_all_agencies(bets, agency) ==
    IF bets = <<>> THEN <<>>
    ELSE [i \in 1..Len(bets) |-> bets[i].document]
get_winners_for_agency(bets, agency) ==
    IF bets = <<>> THEN <<>>
    ELSE IF ~IsInt(agency) THEN <<>>
    ELSE winners_loop(bets, ToInt(agency), <<>>)

ResponseMsg(success) == Message(RESPONSE, [success |-> success])

\* the WinnersResponse for a query of `agency`, with how it was delivered
WinnersMsg(winners, agency, via) ==
    [type |-> WINNERS_RESPONSE, data |-> [winners |-> winners], agency |-> agency, via |-> via]

\* send_message returns True: the socket is open and the peer still there
can_send(c) == peer_alive[c] /\ ~sock_closed[c]

\* a loop over the pending entries that sends each WinnersResponse twice
RECURSIVE send_winners_twice(_, _, _)
send_winners_twice(o, pend, bets) ==
    IF pend = <<>> THEN o
    ELSE LET e == Head(pend)
             m == WinnersMsg(get_winners_for_agency(bets, e.agency), e.agency, "broadcast")
         IN send_winners_twice(
                IF can_send(e.sock) THEN [o EXCEPT ![e.sock] = Append(Append(@, m), m)] ELSE o,
                Tail(pend), bets)

\* __send_winners_to_all_clients: what the connections have been sent after
\* the loop over the pending entries
RECURSIVE send_winners_to_all(_, _, _)
send_winners_to_all(o, pend, bets) ==
    IF pend = <<>> THEN o
    ELSE LET e == Head(pend)
             m == WinnersMsg(get_winners_for_agency(bets, e.agency), e.agency, "broadcast")
         IN send_winners_to_all(
                IF can_send(e.sock) THEN [o EXCEPT ![e.sock] = Append(@, m)] ELSE o,
                Tail(pend), bets)

\* list.remove(x)
remove_nothing(l, x) == l
RECURSIVE Remove(_, _)
Remove(l, x) ==
    IF l = <<>> THEN <<>>
    ELSE IF Head(l) = x THEN Tail(l)
    ELSE <<Head(l)>> \o Remove(Tail(l), x)

InList(l, x) == \E i \in 1..Len(l) : l[i] = x

\* ---------------------------------------------------------------------- Init
\* no call of send_message is followed byte by byte
SendIdle ==
    /\ send_arg = None
    /\ full_message = <<>>
    /\ total_sent = 0
    /\ wire = <<>>
    /\ send_calls = 0
    /\ send_result = "idle"

\* the state after Server.__init__, the peers about to do what b allows
ServerStart(b) ==
    /\ client_sockets = <<>>
    /\ client_threads = 0
    /\ finished_agencies = {}
    /\ lottery_completed = FALSE
    /\ winners_sent = FALSE
    /\ pending_winner_queries = <<>>
    /\ all_bets = <<>>
    /\ winner_queries_received = 0
    /\ lock = {}
    /\ finished_barrier = 0
    /\ winners_barrier = 0
    /\ store = <<>>
    /\ main_pc = "check"
    /\ pc = [c \in Conns |-> "none"]
    /\ finished_received = [c \in Conns |-> FALSE]
    /\ message = [c \in Conns |-> None]
    /\ sock_closed = [c \in Conns |-> FALSE]
    /\ peer_alive = [c \in Conns |-> TRUE]
    /\ out = [c \in Conns |-> <<>>]
    /\ owed = [c \in Conns |-> [submit |-> 0, query |-> 0, asked |-> 0, acked |-> <<>>]]
    /\ submitted = 0
    /\ budget = b
    /\ lottery_runs = 0
    /\ broadcast_runs = 0
    /\ snapshot = <<>>
    /\ load_failed = FALSE

Start(b) == ServerStart(b) /\ SendIdle

Init == \E b \in Budgets : Start(b)

\* ------------------------------------------------------------ the accept loop
\* run(): `while len(self._client_sockets) < self._total_agencies`
accept_more(sockets) == Len(sockets) < TotalAgencies

\* the loop condition holds and accept() returns the next peer's socket; the
\* lock is taken for the append
MainAccept ==
    /\ main_pc = "check"
    /\ accept_more(client_sockets)
    /\ client_threads < TotalAgencies + budget.conns
    /\ lock_free(lock)
    /\ lock' = MainThread
    /\ main_pc' = "append"
    /\ UNCHANGED <<fields, store, thread_vars, conn_vars, hist_vars, send_vars>>

\* the append under the lock, then the thread is created and started; its
\* first statement, getpeername(), raises OSError when the peer is gone already
\* (the outer except, then finally)
MainAppendStart(peer_there) ==
    /\ main_pc = "append"
    /\ LET client_sock == client_threads + 1
       IN /\ client_sockets' = Append(client_sockets, client_sock)
          /\ pc' = [pc EXCEPT ![client_sock] = IF peer_there THEN "recv" ELSE "finally"]
    /\ lock' = {}
    /\ client_threads' = client_threads + 1
    /\ main_pc' = "check"
    /\ UNCHANGED <<finished_agencies, lottery_completed, winners_sent,
                   pending_winner_queries, all_bets, winner_queries_received,
                   finished_barrier, winners_barrier,
                   store, finished_received, message, conn_vars, hist_vars, send_vars>>

\* the loop condition fails: all_clients_connected
MainConnected ==
    /\ main_pc = "check"
    /\ ~accept_more(client_sockets)
    /\ main_pc' = "join"
    /\ UNCHANGED <<server_vars, store, thread_vars, conn_vars, hist_vars, send_vars>>

\* `for thread in self._client_threads: thread.join()`, then `while True` again
MainJoin ==
    /\ main_pc = "join"
    /\ \A c \in 1..client_threads : pc[c] = "done"
    /\ main_pc' = "check"
    /\ UNCHANGED <<server_vars, store, thread_vars, conn_vars, hist_vars, send_vars>>

\* ------------------------------------------------------- the handler thread
\* `with self._lock:` entered
Acquire(c, from, to) ==
    /\ pc[c] = from
    /\ lock_free(lock)
    /\ lock' = {c}
    /\ pc' = [pc EXCEPT ![c] = to]
    /\ UNCHANGED <<fields, store, main_pc, finished_received, message,
                   conn_vars, hist_vars, send_vars>>

\* send_message(conn, m) by the handler of c: what c has been sent afterwards
Transmit(c, m) == IF can_send(c) THEN [out EXCEPT ![c] = Append(@, m)] ELSE out

\* where a decoded message of the submit loop is handled
submit_dispatch_continue(m) ==
    IF m = None THEN "recv"
    ELSE IF m.type = FINISHED_NOTIFICATION THEN "fin_cs"
    ELSE IF m.type = BATCH THEN "batch_cs"
    ELSE "wq_cs"
submit_dispatch(m) ==
    IF m = None THEN "finally"
    ELSE IF m.type = FINISHED_NOTIFICATION THEN "fin_cs"
    ELSE IF m.type = BATCH THEN "batch_cs"
    ELSE "wq_cs"

\* The receive of the `while not finished_received` loop, up to the lock the
\* message's handler takes; no message: return, to the finally.
RecvSubmit(c, in) ==
    /\ pc[c] = "recv"
    /\ in.msg # None /\ in.msg.type # FINISHED_NOTIFICATION => submitted < budget.submit
    /\ submitted' = IF in.msg # None /\ in.msg.type # FINISHED_NOTIFICATION
                    THEN submitted + 1 ELSE submitted
    /\ IF in.msg = None THEN lock' = lock ELSE lock_free(lock) /\ lock' = {c}
    /\ message' = [message EXCEPT ![c] = in.msg]
    /\ pc' = [pc EXCEPT ![c] = submit_dispatch(in.msg)]
    /\ owed' = [owed EXCEPT
                  ![c].submit = IF in.type \in {BATCH, FINISHED_NOTIFICATION} THEN @ + 1 ELSE @,
                  ![c].asked = IF in.msg # None /\ in.msg.type = WINNERS_QUERY THEN @ + 1 ELSE @]
    /\ peer_alive' = [peer_alive EXCEPT ![c] = @ /\ ~in.closed]
    /\ UNCHANGED <<fields, store, main_pc, finished_received,
                   sock_closed, out, budget, load_failed, lottery_runs, broadcast_runs, snapshot, send_vars>>

\* the bets c has been sent a success Response for, after __handle_batch_bets
acknowledged(c, stored, bets) ==
    [owed EXCEPT ![c].acked = IF stored /\ can_send(c) THEN @ \o bets ELSE @]

\* __handle_batch_bets whose except sends no error response
BatchStoreSilent(c, stored) ==
    /\ pc[c] = "batch_cs"
    /\ stored => Len(store) + Len(message[c].data.bets) <= MaxStore
    /\ store' = IF stored THEN store_bets(store, message[c].data.bets) ELSE store
    /\ lock' = {}
    /\ out' = IF stored THEN Transmit(c, ResponseMsg(stored)) ELSE out
    /\ pc' = [pc EXCEPT ![c] = "recv"]
    /\ message' = [message EXCEPT ![c] = None]
    /\ owed' = acknowledged(c, stored, message[c].data.bets)
    /\ UNCHANGED <<fields, main_pc, finished_received, conn_vars,
                   submitted, budget, load_failed, lottery_runs, broadcast_runs, snapshot, send_vars>>

\* __handle_batch_bets: store_bets under the lock, then the success Response;
\* stored is FALSE when store_bets raises: __send_error_response from the except
BatchStore(c, stored) ==
    /\ pc[c] = "batch_cs"
    /\ stored => Len(store) + Len(message[c].data.bets) <= MaxStore
    /\ store' = IF stored THEN store_bets(store, message[c].data.bets) ELSE store
    /\ lock' = {}
    /\ out' = Transmit(c, ResponseMsg(stored))
    /\ pc' = [pc EXCEPT ![c] = "recv"]
    /\ message' = [message EXCEPT ![c] = None]
    /\ owed' = acknowledged(c, stored, message[c].data.bets)
    /\ UNCHANGED <<fields, main_pc, finished_received, conn_vars,
                   submitted, budget, load_failed, lottery_runs, broadcast_runs, snapshot, send_vars>>

\* __handle_finished_notification: the mark under the lock, then the success
\* Response; back in the loop, finished_received = True ends it
FinishedMark(c) ==
    /\ pc[c] = "fin_cs"
    /\ finished_agencies' = mark_finished(finished_agencies, message[c].data.agency)
    /\ lock' = {}
    /\ out' = Transmit(c, ResponseMsg(TRUE))
    /\ finished_received' = [finished_received EXCEPT ![c] = TRUE]
    /\ message' = [message EXCEPT ![c] = None]
    /\ pc' = [pc EXCEPT ![c] = "at_A"]
    /\ UNCHANGED <<client_sockets, client_threads, lottery_completed,
                   winners_sent, pending_winner_queries, all_bets, winner_queries_received,
                   finished_barrier, winners_barrier,
                   store, main_pc, conn_vars,
                   owed, submitted, budget, load_failed, lottery_runs, broadcast_runs, snapshot, send_vars>>

\* a barrier's wait(): the thread that trips it releases all that wait in it
released(c, waiting_at, to, trips) ==
    [d \in Conns |->
        IF d = c THEN (IF trips THEN to ELSE waiting_at)
        ELSE IF trips /\ pc[d] = waiting_at THEN to
        ELSE pc[d]]

\* self._finished_barrier.wait()
BarrierA(c) ==
    /\ pc[c] = "at_A"
    /\ LET trips == barrier_trips(finished_barrier)
       IN /\ pc' = released(c, "wait_A", "lot_lock", trips)
          /\ finished_barrier' = IF trips THEN 0 ELSE finished_barrier + 1
    /\ UNCHANGED <<client_sockets, client_threads, finished_agencies, lottery_completed,
                   winners_sent, pending_winner_queries, all_bets, winner_queries_received,
                   lock, winners_barrier,
                   store, main_pc, finished_received, message, conn_vars,
                   out, owed, submitted, budget, load_failed, lottery_runs, broadcast_runs, snapshot, send_vars>>

\* the latch section after barrier A: the handler that finds the flag false sets
\* it and goes on to __perform_lottery, the lock still held; the others leave
Lottery(c) ==
    /\ pc[c] = "lot_cs"
    /\ IF lottery_latch(lottery_completed)
       THEN /\ lottery_completed' = TRUE
            /\ lottery_runs' = lottery_runs + 1
            /\ pc' = [pc EXCEPT ![c] = "lot_load"]
            /\ lock' = lock
       ELSE /\ pc' = [pc EXCEPT ![c] = "recv2"]
            /\ lock' = {}
            /\ UNCHANGED <<lottery_completed, lottery_runs>>
    /\ UNCHANGED <<client_sockets, client_threads, finished_agencies,
                   winners_sent, pending_winner_queries, all_bets, winner_queries_received,
                   finished_barrier, winners_barrier,
                   store, main_pc, finished_received, message, conn_vars,
                   out, owed, submitted, budget, load_failed, broadcast_runs, snapshot, send_vars>>

\* __perform_lottery inside the latch section, then the lock is released;
\* loads is FALSE when load_bets raises
PerformLottery(c, loads) ==
    /\ pc[c] = "lot_load"
    /\ all_bets' = perform_lottery(store, loads, all_bets)
    /\ snapshot' = IF loads THEN store ELSE snapshot
    /\ load_failed' = ~loads
    /\ lock' = {}
    /\ pc' = [pc EXCEPT ![c] = "recv2"]
    /\ UNCHANGED <<client_sockets, client_threads, finished_agencies, lottery_completed,
                   winners_sent, pending_winner_queries, winner_queries_received,
                   finished_barrier, winners_barrier,
                   store, main_pc, finished_received, message, conn_vars,
                   out, owed, submitted, budget, lottery_runs, broadcast_runs, send_vars>>

\* where the message of the receive after the latch section is handled, with
\* a Batch handed to __handle_batch_bets
query_dispatch_batches(m) ==
    IF m # None /\ m.type = WINNERS_QUERY THEN "wq_cs"
    ELSE IF m # None /\ m.type = BATCH THEN "batch_cs"
    ELSE "at_B"
\* where the message of the receive after the latch section is handled:
\* `if message and message.type == WINNERS_QUERY`, else it is only logged
query_dispatch(m) ==
    IF m # None /\ m.type = WINNERS_QUERY THEN "wq_cs" ELSE "at_B"

\* The one receive after the latch section: a WinnersQuery is handled (up to
\* the lock its handler takes), anything else, no message included, is logged
\* and the thread goes on to barrier B.
RecvQuery(c, in) ==
    /\ pc[c] = "recv2"
    /\ LET to == query_dispatch(in.msg)
       IN /\ message' = [message EXCEPT ![c] = IF to = "at_B" THEN None ELSE in.msg]
          /\ pc' = [pc EXCEPT ![c] = to]
          /\ IF to = "at_B" THEN lock' = lock ELSE lock_free(lock) /\ lock' = {c}
    /\ owed' = [owed EXCEPT
                  ![c].query = IF in.type \in {BATCH, FINISHED_NOTIFICATION} THEN @ + 1 ELSE @,
                  ![c].asked = IF in.msg # None /\ in.msg.type = WINNERS_QUERY THEN @ + 1 ELSE @]
    /\ peer_alive' = [peer_alive EXCEPT ![c] = @ /\ ~in.closed]
    /\ UNCHANGED <<fields, store, main_pc, finished_received,
                   sock_closed, out, submitted, budget, load_failed, lottery_runs, broadcast_runs, snapshot, send_vars>>

\* where the thread goes on after __handle_winners_query returns
after_query(c) == IF finished_received[c] THEN "at_B" ELSE "recv"

\* __handle_winners_query, the part under the lock
QueryLocked(c) ==
    /\ pc[c] = "wq_cs"
    /\ winner_queries_received' = winner_queries_received + 1
    /\ IF query_pending(lottery_completed)
       THEN /\ pending_winner_queries' =
                   Append(pending_winner_queries, [sock |-> c, agency |-> message[c].data.agency])
            /\ pc' = [pc EXCEPT ![c] = after_query(c)]
            /\ message' = [message EXCEPT ![c] = None]
       ELSE /\ pc' = [pc EXCEPT ![c] = "wq_send"]
            /\ UNCHANGED <<pending_winner_queries, message>>
    /\ lock' = {}
    /\ UNCHANGED <<client_sockets, client_threads, finished_agencies, lottery_completed,
                   winners_sent, all_bets, finished_barrier, winners_barrier,
                   store, main_pc, finished_received, conn_vars, hist_vars, send_vars>>

\* __handle_winners_query, the immediate answer after the lock is released
QueryAnswer(c) ==
    /\ pc[c] = "wq_send"
    /\ LET agency == message[c].data.agency
       IN out' = Transmit(c, WinnersMsg(get_winners_for_agency(all_bets, agency),
                                        agency, "immediate"))
    /\ pc' = [pc EXCEPT ![c] = after_query(c)]
    /\ message' = [message EXCEPT ![c] = None]
    /\ UNCHANGED <<server_vars, store, main_pc, finished_received, conn_vars,
                   owed, submitted, budget, load_failed, lottery_runs, broadcast_runs, snapshot, send_vars>>

\* self._winners_barrier.wait()
BarrierB(c) ==
    /\ pc[c] = "at_B"
    /\ LET trips == barrier_trips(winners_barrier)
       IN /\ pc' = released(c, "wait_B", "bc_lock", trips)
          /\ winners_barrier' = IF trips THEN 0 ELSE winners_barrier + 1
    /\ UNCHANGED <<client_sockets, client_threads, finished_agencies, lottery_completed,
                   winners_sent, pending_winner_queries, all_bets, winner_queries_received,
                   lock, finished_barrier,
                   store, main_pc, finished_received, message, conn_vars, hist_vars, send_vars>>

\* the latch section after barrier B, __send_winners_to_all_clients in it
Broadcast(c) ==
    /\ pc[c] = "bc_cs"
    /\ IF winners_latch(winners_sent)
       THEN /\ winners_sent' = TRUE
            /\ out' = send_winners_to_all(out, pending_winner_queries, all_bets)
            /\ pending_winner_queries' = <<>>
            /\ broadcast_runs' = broadcast_runs + 1
       ELSE UNCHANGED <<winners_sent, out, pending_winner_queries, broadcast_runs>>
    /\ lock' = {}
    /\ pc' = [pc EXCEPT ![c] = "finally"]
    /\ UNCHANGED <<client_sockets, client_threads, finished_agencies, lottery_completed,
                   all_bets, winner_queries_received, finished_barrier, winners_barrier,
                   store, main_pc, finished_received, message, conn_vars,
                   owed, submitted, budget, load_failed, lottery_runs, snapshot, send_vars>>

\* finally: the socket leaves the registry under the lock and is closed
Finally(c) ==
    /\ pc[c] = "rm_cs"
    /\ client_sockets' = Remove(client_sockets, c)
    /\ lock' = {}
    /\ sock_closed' = [sock_closed EXCEPT ![c] = TRUE]
    /\ pc' = [pc EXCEPT ![c] = "done"]
    /\ UNCHANGED <<client_threads, finished_agencies, lottery_completed,
                   winners_sent, pending_winner_queries, all_bets, winner_queries_received,
                   finished_barrier, winners_barrier,
                   store, main_pc, finished_received, message, peer_alive, hist_vars, send_vars>>

\* the steps of the handler thread of c, its receives drawing from what the
\* peer may deliver in the submit loop and after barrier A
HandlerOn(c, submit_in, query_in) ==
    \/ \E in \in submit_in : RecvSubmit(c, in)
    \/ \E stored \in BOOLEAN : BatchStore(c, stored)
    \/ FinishedMark(c)
    \/ BarrierA(c)
    \/ Acquire(c, "lot_lock", "lot_cs")
    \/ Lottery(c)
    \/ \E loads \in BOOLEAN : PerformLottery(c, loads)
    \/ \E in \in query_in : RecvQuery(c, in)
    \/ QueryLocked(c)
    \/ QueryAnswer(c)
    \/ BarrierB(c)
    \/ Acquire(c, "bc_lock", "bc_cs")
    \/ Broadcast(c)
    \/ Acquire(c, "finally", "rm_cs")
    \/ Finally(c)

Handler(c) == HandlerOn(c, Inbound, Inbound)

Main ==
    \/ MainAccept
    \/ \E peer_there \in BOOLEAN : MainAppendStart(peer_there)
    \/ MainConnected
    \/ MainJoin

Next == Main \/ \E c \in Conns : Handler(c)

Spec == Init /\ [][Next]_vars

\* ------------------------------------------------------------------ claims
\* handlers that received a FinishedNotification and called
\* _finished_barrier.wait()
ArrivedA == {c \in Conns : finished_received[c] /\ pc[c] # "at_A"}

\* handlers that left the latch section after barrier A
PastLotteryLatch ==
    {c \in Conns : finished_received[c]
                    /\ pc[c] \notin {"at_A", "wait_A", "lot_lock", "lot_cs", "lot_load"}}

\* handlers that left the latch section after barrier B
PastBroadcastLatch ==
    {c \in Conns : finished_received[c] /\ pc[c] \in {"finally", "rm_cs", "done"}}

\* the WinnersResponses among the messages a connection was sent
WinnersSent(c) == SelectSeq(out[c], LAMBDA m : m.type = WINNERS_RESPONSE)

\* the Responses among the messages a connection was sent
ResponsesSent(c) == SelectSeq(out[c], LAMBDA m : m.type = RESPONSE)

\* C1: the lottery computation runs at most once, never before TotalAgencies
\* handlers have each received a FinishedNotification and arrived at barrier A,
\* and it has run exactly once as soon as a handler has left the latch section
\* that follows barrier A.
C1_LotteryOnce ==
    /\ lottery_runs <= 1
    /\ lottery_completed <=> lottery_runs = 1
    /\ lottery_runs >= 1 => Cardinality(ArrivedA) >= TotalAgencies
    /\ PastLotteryLatch # {} => lottery_runs = 1

\* C1's case: all the handlers of a round have left the latch section
C1_Witness ==
    /\ Cardinality(PastLotteryLatch) = TotalAgencies
    /\ lottery_runs = 1

\* C2: a connection is sent a WinnersResponse only once the lottery has run; a
\* query received while the flag is false waits in the pending list.
C2_NoWinnersBeforeLottery ==
    /\ (\E c \in Conns : WinnersSent(c) # <<>>) => lottery_completed /\ lottery_runs = 1
    /\ pending_winner_queries # <<>> /\ ~lottery_completed =>
           \A i \in 1..Len(pending_winner_queries) :
               WinnersSent(pending_winner_queries[i].sock) = <<>>

\* C2's case: a query that was received before the lottery and stored as
\* pending has been answered by the broadcast
C2_Witness ==
    \E c \in Conns : \E i \in 1..Len(out[c]) :
        out[c][i].type = WINNERS_RESPONSE /\ out[c][i].via = "broadcast"

\* the entries of the pending list that belong to socket c, in order
PendingOf(c) == SelectSeq(pending_winner_queries, LAMBDA e : e.sock = c)

\* C3: the broadcast runs at most once and only after the lottery; it has run
\* once a handler has left the latch section that follows barrier B; when it
\* runs, every pending entry is sent one WinnersResponse (transmitted when the
\* entry's connection is still open) and the pending list is empty afterwards.
C3_BroadcastOnce ==
    /\ [](broadcast_runs <= 1)
    /\ [](winners_sent <=> broadcast_runs = 1)
    /\ [](PastBroadcastLatch # {} => broadcast_runs = 1)
    /\ [][broadcast_runs' # broadcast_runs =>
            /\ lottery_completed /\ lottery_runs = 1
            /\ pending_winner_queries' = <<>>
            /\ \A c \in Conns :
                 out'[c] = out[c] \o
                     (IF can_send(c)
                      THEN [i \in 1..Len(PendingOf(c)) |->
                              WinnersMsg(get_winners_for_agency(all_bets, PendingOf(c)[i].agency),
                                         PendingOf(c)[i].agency, "broadcast")]
                      ELSE <<>>)]_vars

\* C3's case: all the handlers of a round have left the latch section after
\* barrier B and a pending query was answered by the broadcast
C3_Witness ==
    /\ Cardinality(PastBroadcastLatch) = TotalAgencies
    /\ broadcast_runs = 1
    /\ \E c \in Conns : \E i \in 1..Len(out[c]) :
           out[c][i].type = WINNERS_RESPONSE /\ out[c][i].via = "broadcast"

RoundSubmitInbound ==
    {in \in Inbound : in.kind = "ok" /\ in.type \in {BATCH, FINISHED_NOTIFICATION}}

RoundQueryInbound == {in \in Inbound : in.kind = "ok" /\ in.type = WINNERS_QUERY}

\* TotalAgencies peers connect and none goes away
RoundInit == Init /\ budget.conns = 0

RoundHandler(c) == HandlerOn(c, RoundSubmitInbound, RoundQueryInbound)

RoundMain ==
    \/ MainAccept
    \/ MainAppendStart(TRUE)
    \/ MainConnected
    \/ MainJoin

RoundNext == RoundMain \/ \E c \in Conns : RoundHandler(c)

\* the accept loop and every handler thread are scheduled again and again
RoundSpec ==
    /\ RoundInit
    /\ [][RoundNext]_vars
    /\ WF_vars(RoundMain)
    /\ \A c \in Conns : WF_vars(RoundHandler(c))

\* C5: in a full round (TotalAgencies peers connect, each delivers well-formed
\* Batches, a FinishedNotification and then a WinnersQuery, no connection
\* fails) every handler eventually passes both barriers and terminates with
\* its socket closed, and every agency is sent exactly one WinnersResponse.
C5_RoundCompletes ==
    /\ <>[](\A c \in 1..TotalAgencies :
              /\ finished_received[c]
              /\ pc[c] = "done"
              /\ sock_closed[c]
              /\ Len(WinnersSent(c)) = 1)
    /\ [](\A c \in Conns : Len(WinnersSent(c)) <= 1)
    /\ \A c \in 1..TotalAgencies : <>(pc[c] = "recv2") /\ <>(pc[c] = "bc_cs")

\* C5's case: the round is over, every agency has its WinnersResponse
C5_Witness ==
    /\ main_pc = "check"
    /\ \A c \in 1..TotalAgencies :
           pc[c] = "done" /\ sock_closed[c] /\ Len(WinnersSent(c)) = 1 /\ peer_alive[c]

\* the documents of the rows the lottery loaded whose number wins and whose
\* agency is the one asked for, in the store's order
RetainedFor(rows, agency) ==
    LET kept == SelectSeq(rows, LAMBDA r : r.number = Str("7574") /\ r.agency = agency)
    IN [i \in 1..Len(kept) |-> kept[i].document]

\* C6: every WinnersResponse sent for a query of agency a lists exactly the
\* documents of the bets the lottery retained whose agency is a: none of
\* another agency, none of a's winners omitted, the empty list when a has no
\* winner or nothing was loaded.
C6_WinnersOfTheAgency ==
    \A c \in Conns : \A i \in 1..Len(out[c]) :
        out[c][i].type = WINNERS_RESPONSE =>
            out[c][i].data.winners = RetainedFor(snapshot, out[c][i].agency)

\* C6's case: a WinnersResponse that lists a winner and leaves out a loaded bet
C6_Witness ==
    \E c \in Conns : \E i \in 1..Len(out[c]) :
        /\ out[c][i].type = WINNERS_RESPONSE
        /\ Len(out[c][i].data.winners) = 1
        /\ Len(snapshot) = 2

\* C7 as stated: a handler that is done, its peer still there, has sent one
\* Response for every whole Batch and FinishedNotification frame it received.
C7_EveryFrameAnswered ==
    \A c \in Conns :
        pc[c] = "done" /\ peer_alive[c] =>
            Len(ResponsesSent(c)) = owed[c].submit + owed[c].query

\* C8 as stated: a frame of a recognized type with a malformed payload,
\* received in the submit loop, is answered with a failure Response and the
\* handler stays in its receive loop.
C8_MalformedGetsFailureResponse ==
    [][\A c \in Conns : \A in \in Inbound :
          in.kind = "malformed" /\ RecvSubmit(c, in) =>
              /\ pc'[c] \notin {"finally", "rm_cs", "done"}
              /\ out'[c] = Append(out[c], ResponseMsg(FALSE))]_vars

\* where a handler is once it has left the try block
Exited == {"finally", "rm_cs", "done"}

\* C9: in the submit loop a receive that yields no message sends nothing on
\* the connection and ends the loop; from there the handler only closes the
\* socket: it sends nothing, never sets finished_received and never arrives at
\* barrier A.
C9_NoMessageEndsHandler ==
    /\ [][\A c \in Conns : \A in \in Inbound :
            in.msg = None /\ RecvSubmit(c, in) =>
                /\ pc'[c] = "finally"
                /\ out'[c] = out[c]
                /\ ~finished_received'[c]
                /\ finished_barrier' = finished_barrier]_vars
    /\ [][\A c \in Conns :
            pc[c] \in Exited /\ ~finished_received[c] =>
                /\ pc'[c] \in Exited
                /\ ~finished_received'[c]
                /\ (pc'[c] # pc[c] => out'[c] = out[c])]_vars
    /\ [](\A c \in Conns : pc[c] = "done" => sock_closed[c])

\* C9's case: a handler whose peer closed in the middle of a frame is done,
\* having sent nothing
C9_Witness ==
    \E c \in Conns :
        /\ pc[c] = "done" /\ ~finished_received[c]
        /\ ~peer_alive[c] /\ sock_closed[c] /\ out[c] = <<>>

\* C10: handling a FinishedNotification for an agency that is in the finished
\* set already leaves the set unchanged, whichever connection delivers it; the
\* set never loses an agency.
C10_FinishedMarkIdempotent ==
    /\ [][\A c \in Conns :
            pc[c] = "fin_cs" /\ pc'[c] # "fin_cs"
            /\ message[c].data.agency \in finished_agencies =>
                finished_agencies' = finished_agencies]_vars
    /\ [][finished_agencies \subseteq finished_agencies']_vars

\* C10's case: two connections delivered a FinishedNotification of the same
\* agency
C10_Witness ==
    /\ Cardinality({c \in Conns : finished_received[c]}) >= 2
    /\ Cardinality(finished_agencies) = 1

\* C11 as stated: over the life of the server no more than TotalAgencies
\* connections are accepted and given a handler thread.
C11_AcceptsExactlyN == client_threads <= TotalAgencies

\* C12: a handler that has terminated, by whichever path, has closed its socket
\* and is no longer in the live-connection registry.
C12_ExitClosesAndDeregisters ==
    \A c \in Conns :
        pc[c] = "done" => sock_closed[c] /\ ~InList(client_sockets, c)

\* C12's case: a handler that went through both barriers and a handler that
\* left from its submit loop have both terminated
C12_Witness ==
    \E c, d \in Conns :
        /\ pc[c] = "done" /\ finished_received[c]
        /\ pc[d] = "done" /\ ~finished_received[d]

\* C13 as stated: once the connection of a handler has failed before the
\* handler reached a barrier, no handler is released from that barrier any
\* more (barrier A when it failed in the submit loop, barrier B when it failed
\* after barrier A).
C13_FailureBlocksBarrier ==
    [][\A c \in Conns :
          ~peer_alive[c] /\ pc[c] # "none" =>
              IF finished_received[c]
              THEN \A d \in Conns : pc'[d] = "bc_lock" => pc[d] = "bc_lock"
              ELSE \A d \in Conns : pc'[d] = "lot_lock" => pc[d] = "lot_lock"]_vars

\* C14 as stated: when the one receive after barrier A yields no message or a
\* message that is no WinnersQuery, the handler leaves: it does not go on to
\* barrier B.
C14_NoQueryExits ==
    [][\A c \in Conns : \A in \in Inbound :
          (in.msg = None \/ in.msg.type # WINNERS_QUERY) /\ RecvQuery(c, in) =>
              pc'[c] \in Exited]_vars

\* C15: the processing of a Batch sends exactly one Response when the
\* connection is open, a failure Response when the store append failed (the
\* store is as before) and a success Response when the bets were appended, and
\* the handler is back in its receive loop.
C15_StoreFailureAnswered ==
    [][\A c \in Conns :
          pc[c] = "batch_cs" /\ pc'[c] # "batch_cs" =>
              /\ pc'[c] = "recv"
              /\ ~finished_received'[c]
              /\ store' # store => out'[c] = Transmit(c, ResponseMsg(TRUE))[c]
              /\ store' = store /\ message[c].data.bets # <<>> =>
                     out'[c] = Transmit(c, ResponseMsg(FALSE))[c]
              /\ can_send(c) =>
                     /\ Len(out'[c]) = Len(out[c]) + 1
                     /\ out'[c][Len(out'[c])].type = RESPONSE]_vars

\* C15's case: a handler answered a Batch with a failure Response and
\* processed the FinishedNotification that followed
C15_Witness ==
    \E c \in Conns :
        /\ finished_received[c]
        /\ Len(ResponsesSent(c)) = 2
        /\ ~ResponsesSent(c)[1].data.success
        /\ ResponsesSent(c)[2].data.success
        /\ store = <<>>

\* C18 as stated: a handler that reads the materialized winners list to answer
\* a query holds the lock.
C18_WinnersReadUnderLock == \A c \in Conns : pc[c] = "wq_send" => lock = {c}

\* --------------------------------------------- a round and a late connection
\* After the round of TotalAgencies a further peer connects; the peers deliver
\* well-formed frames only: in the submit loop FinishedNotifications, Batches
\* that start with a winning bet and WinnersQueries of a provisioned agency.
LateSubmitInbound ==
    {in \in Inbound :
        /\ in.kind = "ok"
        /\ in.type = BATCH =>
               in.msg.data.bets # <<>> /\ in.msg.data.bets[1].number = Str("7574")
        /\ in.type = WINNERS_QUERY => in.msg.data.agency \in FinishedAgencies}

LateInit == Start([conns |-> ExtraConns, submit |-> MaxSubmit + 1])

LateHandler(c) == HandlerOn(c, LateSubmitInbound, RoundQueryInbound)

LateNext == RoundMain \/ \E c \in Conns : LateHandler(c)

LateSpec == LateInit /\ [][LateNext]_vars

\* the rows of the store that win
Winning(rows) == SelectSeq(rows, LAMBDA r : r.number = Str("7574"))

\* C16: the two flags never go back to false; the materialized winners list
\* changes only in the one lottery computation (from empty, to the winners of
\* the store as loaded) and keeps that value whatever is appended to the store
\* later; every WinnersResponse is computed from it.
C16_LatchesAndWinnersFrozen ==
    /\ [][lottery_completed => lottery_completed']_vars
    /\ [][winners_sent => winners_sent']_vars
    /\ [][all_bets' # all_bets =>
            /\ lottery_runs = 1 /\ lottery_runs' = 1
            /\ all_bets = <<>>
            /\ \E c \in Conns : pc[c] = "lot_load" /\ pc'[c] = "recv2"]_vars
    /\ [](Len(all_bets) = Len(Winning(snapshot))
          /\ \A i \in 1..Len(all_bets) : all_bets[i].document = Winning(snapshot)[i].document)
    /\ [][\A c \in Conns :
            Len(out'[c]) > Len(out[c]) /\ out'[c][Len(out'[c])].type = WINNERS_RESPONSE =>
                out'[c][Len(out'[c])].data.winners =
                    get_winners_for_agency(all_bets, out'[c][Len(out'[c])].agency)]_vars

\* C16's case: a connection accepted after the lottery had its Batch appended
\* to the store, a winning bet in it, and then its WinnersQuery answered
C16_Witness ==
    \E c \in Conns :
        /\ lottery_runs = 1 /\ ~finished_received[c]
        /\ Len(out[c]) = 2
        /\ out[c][1].type = RESPONSE /\ out[c][1].data.success
        /\ out[c][2].type = WINNERS_RESPONSE
        /\ Len(Winning(store)) > Len(Winning(snapshot))

\* the handlers that are appending to the store or loading it
InStore == {c \in Conns : pc[c] \in {"batch_cs", "lot_load"}}

Computing == {c \in Conns : pc[c] \in {"wq_send", "bc_cs"}}

\* C20: while a handler computes winners from the materialized winners list
\* (the immediate answer to a query, or the broadcast) the lottery has run and
\* no handler is inside __perform_lottery.
C20_NoWinnersDuringLoad ==
    Computing # {} =>
        /\ lottery_completed /\ lottery_runs = 1
        /\ \A d \in Conns : pc[d] # "lot_load"

\* C20's case: a handler answers its query after barrier A while the other
\* handler has not yet received its own, the lottery having loaded winners
C20_Witness ==
    \E c, d \in Conns :
        /\ c # d /\ finished_received[c] /\ finished_received[d]
        /\ pc[c] = "wq_send" /\ pc[d] \in {"lot_lock", "lot_cs", "recv2"}
        /\ all_bets # <<>>

\* ------------------------------------------------------------- send_message
\* documents in the WinnersResponse that is sent
MaxWinners == 2
\* bytes one call of conn.send transmits at most
MaxWrite == 16

Response(success, msg) == [class |-> "Response", success |-> success, message |-> msg]

WinnersResponse(winners) == [class |-> "WinnersResponse", winners |-> winners]

\* str.encode('utf-8'): the bytes of each symbol, "e'" being a character of
\* two bytes
Utf8(sym) ==
    IF sym = "true" THEN <<116, 114, 117, 101>>
    ELSE IF sym = "false" THEN <<102, 97, 108, 115, 101>>
    ELSE IF sym = BAR THEN <<124>>
    ELSE IF sym = "ok" THEN <<111, 107>>
    ELSE IF sym = "e'" THEN <<195, 169>>
    ELSE IF sym = "d1" THEN <<100, 49>>
    ELSE <<100, 51>>

RECURSIVE encode(_)
encode(str) == IF str = <<>> THEN <<>> ELSE Utf8(Head(str)) \o encode(Tail(str))

\* int.to_bytes(4, byteorder='little')
to_bytes4_big(n) ==
    <<(n \div 16777216) % 256, (n \div 65536) % 256, (n \div 256) % 256, n % 256>>
to_bytes4(n) ==
    <<n % 256, (n \div 256) % 256, (n \div 65536) % 256, (n \div 16777216) % 256>>

\* the messages handed to send_message: Responses, WinnersResponses, a message
\* of an inbound type and messages whose data is of the wrong class
SendMessages ==
    {Message(RESPONSE, Response(ok, msg)) :
        <<ok, msg>> \in BOOLEAN \X {<<>>, Str("ok"), Str("e'"), <<"ok", BAR, "e'">>}}
    \cup {Message(WINNERS_RESPONSE,
                  WinnersResponse([i \in 1..k |-> IF i % 2 = 1 THEN Str("d1") ELSE Str("d3")])) :
             k \in 0..MaxWinners}
    \cup {Message(BATCH, Response(TRUE, Str("ok"))),
          Message(RESPONSE, WinnersResponse(<<Str("d1")>>)),
          Message(WINNERS_RESPONSE, Response(TRUE, Str("ok")))}

\* the type and isinstance checks of send_message
sendable(m) ==
    \/ m.type = RESPONSE /\ m.data.class = "Response"
    \/ m.type = WINNERS_RESPONSE /\ m.data.class = "WinnersResponse"

\* the payload send_message serializes
payload_of(m) ==
    IF m.type = RESPONSE THEN encode(serialize_response(m.data))
    ELSE encode(serialize_winners_response(m.data))

\* type_byte + length_bytes + payload
frame_of(m) == <<m.type>> \o to_bytes4(Len(payload_of(m))) \o payload_of(m)

SendInit ==
    /\ ServerStart([conns |-> 0, submit |-> 0])
    /\ send_arg \in SendMessages
    /\ full_message = <<>>
    /\ total_sent = 0
    /\ wire = <<>>
    /\ send_calls = 0
    /\ send_result = "called"

server_unchanged == UNCHANGED <<server_vars, store, main_pc, thread_vars, conn_vars, hist_vars>>

\* up to the loop: a message that cannot be sent returns False
SendBuild ==
    /\ send_result = "called"
    /\ IF sendable(send_arg)
       THEN /\ full_message' = frame_of(send_arg)
            /\ send_result' = "sending"
       ELSE /\ full_message' = full_message
            /\ send_result' = "False"
    /\ UNCHANGED <<send_arg, total_sent, wire, send_calls>>
    /\ server_unchanged

\* one turn of the loop: conn.send transmits the first sent bytes of the rest
\* and returns sent; 0 returns False, the last byte ends the loop: return True
SendChunk(sent) ==
    /\ send_result = "sending"
    /\ total_sent < Len(full_message)
    /\ sent <= Len(full_message) - total_sent
    /\ send_calls' = send_calls + 1
    /\ wire' = wire \o SubSeq(full_message, total_sent + 1, total_sent + sent)
    /\ IF sent = 0
       THEN /\ send_result' = "False"
            /\ total_sent' = total_sent
       ELSE /\ total_sent' = total_sent + sent
            /\ send_result' = IF total_sent + sent < Len(full_message) THEN "sending" ELSE "True"
    /\ UNCHANGED <<send_arg, full_message>>
    /\ server_unchanged

\* conn.send raises (reset, broken pipe): the except returns False
SendRaises ==
    /\ send_result = "sending"
    /\ total_sent < Len(full_message)
    /\ send_calls' = send_calls + 1
    /\ send_result' = "False"
    /\ UNCHANGED <<send_arg, full_message, total_sent, wire>>
    /\ server_unchanged

SendNext ==
    \/ SendBuild
    \/ \E sent \in 0..MaxWrite : SendChunk(sent)
    \/ SendRaises

SendSpec == SendInit /\ [][SendNext]_vars

\* the number four bytes denote, least significant byte first
LittleEndian(b) == b[1] + 256 * b[2] + 65536 * b[3] + 16777216 * b[4]

IsPrefix(a, b) == Len(a) <= Len(b) /\ a = SubSeq(b, 1, Len(a))

\* C19: whatever the partial writes, the bytes transmitted are a prefix of the
\* frame [type byte][4 length bytes, little-endian][payload]; send_message
\* returns True only when the whole frame was transmitted, the length field
\* being the byte count of the payload that follows and nothing following the
\* payload; it returns False at a write of zero bytes, and without writing when
\* the message is no Response / WinnersResponse.
C19_FrameSent ==
    /\ [](send_result # "called" /\ sendable(send_arg) =>
            /\ IsPrefix(wire, full_message)
            /\ Len(full_message) >= 5
            /\ full_message[1] = send_arg.type
            /\ LittleEndian(SubSeq(full_message, 2, 5)) = Len(full_message) - 5
            /\ SubSeq(full_message, 6, Len(full_message)) = payload_of(send_arg))
    /\ [](send_result = "True" => wire = full_message /\ sendable(send_arg))
    /\ [](~sendable(send_arg) /\ send_result # "called" => send_result = "False" /\ wire = <<>>)
    /\ [][send_result = "sending" /\ send_calls' # send_calls /\ wire' = wire =>
            send_result' = "False"]_vars
    /\ [][send_result = "sending" /\ send_result' = "False" => wire' = wire]_vars

\* C19's case: a frame whose payload has a two-byte character went out whole
\* in three or more partial writes
C19_Witness ==
    /\ send_result = "True"
    /\ send_calls >= 3
    /\ send_arg.type = RESPONSE
    /\ send_arg.data.message = Str("e'")

\* every bet of bets is a row of rows
AllIn(bets, rows) == \A i \in 1..Len(bets) : InList(rows, bets[i])

\* the handlers that have left barrier A
ReleasedA(c) == finished_received[c] /\ pc[c] \notin {"at_A", "wait_A"}

\* C21: a handler that has received its FinishedNotification never appends to
\* the store: the store grows only in __handle_batch_bets of a handler still in
\* its submit loop, and the receive after barrier A, a Batch included, leaves
\* the store as it is.  So when __perform_lottery loads the store, every bet a
\* handler released from barrier A was sent a success Response for is in the
\* store, and in the snapshot the load returns.
C21_NoStoreAfterFinished ==
    [][/\ \A c \in Conns : finished_received'[c] => pc'[c] # "batch_cs"
       /\ store' # store =>
              \E c \in Conns : pc[c] = "batch_cs" /\ ~finished_received[c]
       /\ \A c \in Conns : pc[c] = "recv2" /\ pc'[c] # "recv2" =>
              store' = store /\ owed'[c].acked = owed[c].acked
       /\ \A c \in Conns : finished_received[c] => owed'[c].acked = owed[c].acked
       /\ \A d \in Conns : pc[d] = "lot_load" /\ pc'[d] # "lot_load" =>
              /\ \A c \in Conns : ReleasedA(c) => AllIn(owed[c].acked, store)
              /\ ~load_failed' =>
                     \A c \in Conns : ReleasedA(c) => AllIn(owed[c].acked, snapshot')
      ]_vars

\* the lottery loaded the acknowledged bets of a handler that was sent a Batch
\* again after barrier A
C21_Witness ==
    \E c \in Conns :
        /\ owed[c].acked # <<>>
        /\ owed[c].query > 0
        /\ pc[c] = "at_B"
        /\ lottery_runs = 1 /\ ~load_failed
        /\ snapshot = store /\ AllIn(owed[c].acked, snapshot)

\* the WinnersQueries of c that are being handled by __handle_winners_query
QueriesInHand(c) == IF pc[c] \in {"wq_cs", "wq_send"} THEN 1 ELSE 0

\* C22 as stated: over its lifetime a connection is sent at most one
\* WinnersResponse, whatever the agency sends.
C22_AtMostOneWinnersResponse == \A c \in Conns : Len(WinnersSent(c)) <= 1

\* C22: a connection is sent at most one WinnersResponse for each WinnersQuery
\* received on it: the responses sent, the entries still pending for the
\* connection and the query being handled never outnumber the queries
\* received, and a query is answered either immediately or by the broadcast.
C22_OneWinnersResponsePerQuery ==
    /\ [](\A c \in Conns :
            Len(WinnersSent(c)) + Len(PendingOf(c)) + QueriesInHand(c) <= owed[c].asked)
    /\ [][\A c \in Conns :
            /\ Len(WinnersSent(c)') <= Len(WinnersSent(c)) + Len(PendingOf(c)) + QueriesInHand(c)
            /\ Len(PendingOf(c)') > Len(PendingOf(c)) => WinnersSent(c)' = WinnersSent(c)
         ]_vars

\* a connection whose WinnersQuery before its FinishedNotification was queued
\* and whose WinnersQuery after barrier A was answered immediately has been
\* sent two WinnersResponses, the second by the broadcast
C22_Witness ==
    \E c \in Conns :
        /\ owed[c].asked = 2
        /\ Len(WinnersSent(c)) = 2
        /\ WinnersSent(c)[1].via = "immediate"
        /\ WinnersSent(c)[2].via = "broadcast"

\* C23: when load_bets raises in __perform_lottery, the handler leaves the
\* latch section with the flag set, the lock released and the winners list
\* empty; afterwards the flag stays set, the lottery is not run again, the
\* winners list stays empty, a handler in the latch section leaves it without
\* computing, no query is queued, and every WinnersQuery handled is answered
\* with a WinnersResponse that lists no winner, never with a Response.
C23_LoadFailureLeavesNoWinners ==
    /\ [][\A d \in Conns : pc[d] = "lot_load" /\ load_failed' =>
            /\ pc'[d] = "recv2" /\ lock' = {}
            /\ lottery_completed' /\ all_bets' = <<>> /\ lottery_runs' = 1
         ]_vars
    /\ [](load_failed => lottery_completed /\ lottery_runs = 1 /\ all_bets = <<>>)
    /\ [](load_failed =>
            \A c \in Conns : \A i \in 1..Len(WinnersSent(c)) :
                WinnersSent(c)[i].data.winners = <<>>)
    /\ [][load_failed =>
            /\ load_failed'
            /\ \A c \in Conns :
                  /\ pc[c] = "lot_cs" => pc'[c] \in {"lot_cs", "recv2"}
                  /\ pc[c] = "wq_cs" => pc'[c] \in {"wq_cs", "wq_send"}
                  /\ pc[c] = "wq_send" /\ pc'[c] # "wq_send" /\ can_send(c) =>
                         out'[c] = Append(out[c], WinnersMsg(<<>>, message[c].data.agency,
                                                            "immediate"))
                  /\ Len(PendingOf(c)') <= Len(PendingOf(c))
         ]_vars

\* the load failed with a winning bet of an agency in the store; the other
\* handler left the latch section, and the agency's query was answered with an
\* empty WinnersResponse
C23_Witness ==
    /\ load_failed
    /\ PastLotteryLatch = 1..TotalAgencies
    /\ \E c \in Conns : \E i \in 1..Len(out[c]) :
          /\ out[c][i].type = WINNERS_RESPONSE
          /\ out[c][i].data.winners = <<>>
          /\ RetainedFor(store, out[c][i].agency) # <<>>

====
